---- MODULE Spec2Model ----
(***************************************************************************)
(* TerraForge Studio: the batch queue (core/queue_manager.py), its driver  *)
(* loop and HTTP handlers (api/batch_routes.py), and the result cache      *)
(* (core/cache_manager.py).                                                *)
(*                                                                         *)
(* Scheduling: every handler and every process_queue loop is a coroutine   *)
(* on one asyncio event loop.  A coroutine gives up control only at an     *)
(* await that really suspends.  The awaits on the queue manager's methods  *)
(* never suspend (their bodies hold no blocking await, and processing_lock *)
(* is never held across a suspension, so acquiring it is immediate).  The  *)
(* only suspension of process_queue is inside generate_terrain.  An action *)
(* below is therefore the code run between two suspensions.                *)
(***************************************************************************)
EXTENDS Integers, Sequences, FiniteSets, TLC

\* ------------------------------------------------------------------ bounds
MaxJobs == 2          \* ids uuid4() hands out in a run
MaxBatch == 1         \* requests in one POST /api/batch/add
NumDrivers == 2       \* process_queue tasks alive at once
MaxConcurrent == 1    \* max_concurrent of the manager under check
MaxQueueSize == 1     \* max_queue_size of the manager under check

JobIds == 1..MaxJobs
Drivers == 1..NumDrivers
Priorities == {1, 2}
\* area_km2() of a request's bbox, by the comparisons the code makes on it:
\* "zero" (area_km2 <= 0), "within" (0 < area <= max_area_km2), "over".
Areas == {"zero", "within", "over"}

PENDING == "pending"
PROCESSING == "processing"
COMPLETED == "completed"
FAILED == "failed"
CANCELLED == "cancelled"
JobStatus == {PENDING, PROCESSING, COMPLETED, FAILED, CANCELLED}

None == "None"

Other == [op |-> "other", ret |-> None]

\* what add_batch_jobs did with a request it did not queue
SKIPPED == 0
FULL == 0 - 1

VARIABLES
    max_concurrent,  \* BatchQueueManager.max_concurrent
    max_queue_size,  \* BatchQueueManager.max_queue_size
    jobs,         \* BatchQueueManager.jobs: id -> BatchJob
    queue,        \* BatchQueueManager.queue: list of job ids
    active_jobs,  \* BatchQueueManager.active_jobs
    nextId,       \* the next fresh id uuid4() hands out
    pc,           \* per process_queue task: "idle", "scheduled", "run"
    cur,          \* per process_queue task: the job it is running
    enq,          \* history: queued ids in the order of their latest enqueue
    last          \* history: the last add, cancel or retry call and what
                  \* it returned; Other after any other step

qvars == <<max_concurrent, max_queue_size, jobs, queue, active_jobs, nextId, pc, cur, enq, last>>

VARIABLES
    max_cache_size,  \* TerrainCacheManager.max_cache_size
    max_age,         \* TerrainCacheManager.max_age
    entries,         \* metadata["entries"], a dict: the entries in dict order
    total_size,      \* metadata["total_size"]
    disk,            \* the keys whose directory under cache_dir exists
    now,             \* datetime.now()
    clast            \* history: the last cache call and what it returned

cvars == <<max_cache_size, max_age, entries, total_size, disk, now, clast>>

VARIABLES
    pipe             \* history: the last call of a pipeline function, with
                     \* its arguments, the behaviour of what it called and
                     \* what it returned

VARIABLES
    active_tasks,    \* generator.active_tasks: task id -> GenerationStatus
    task_req,        \* per task: the request run_generation closes over
    task_pc,         \* per task: where run_generation stands
    task_data,       \* per task: the locals of generate_terrain
    ws               \* the coroutine of websocket_generation_updates

gvars == <<active_tasks, task_req, task_pc, task_data, ws>>
xvars == <<pipe, gvars>>
vars == <<qvars, cvars, xvars>>

\* ------------------------------------------------------- sequence helpers
RECURSIVE index_of(_, _, _)
index_of(s, x, i) ==
    IF i > Len(s) THEN 0
    ELSE IF s[i] = x THEN i ELSE index_of(s, x, i + 1)

\* list.remove(x) guarded by "x in list": drops the first occurrence
list_remove(s, x) ==
    LET k == index_of(s, x, 1)
    IN IF k = 0 THEN s
       ELSE SubSeq(s, 1, k - 1) \o SubSeq(s, k + 1, Len(s))

\* list.insert(pos, x), pos counted from 0
list_insert(s, pos, x) ==
    SubSeq(s, 1, pos) \o <<x>> \o SubSeq(s, pos + 1, Len(s))

Range(s) == {s[i] : i \in 1..Len(s)}

\* ----------------------------------------------------- BatchQueueManager
\* The manager's state as one value m = [jobs, queue, active_jobs].
Manager == [jobs |-> jobs, queue |-> queue, active_jobs |-> active_jobs]

BatchJob(req, priority) ==
    [request |-> req, status |-> PENDING, progress |-> 0, error |-> None,
     result |-> None, priority |-> priority]

\* add_job's guard with > for >=
queue_full_gt(m) == Len(m.queue) > max_queue_size

queue_full(m) == Len(m.queue) >= max_queue_size

\* add_job's loop stopping at the first job of lower or equal priority
RECURSIVE insert_pos_leq(_, _, _, _)
insert_pos_leq(J, q, priority, i) ==
    IF i > Len(q) THEN Len(q)
    ELSE IF J[q[i]].priority <= priority THEN i - 1
    ELSE insert_pos_leq(J, q, priority, i + 1)

\* the loop of add_job: the index of the first queued job of lower priority
RECURSIVE insert_pos(_, _, _, _)
insert_pos(J, q, priority, i) ==
    IF i > Len(q) THEN Len(q)
    ELSE IF J[q[i]].priority < priority THEN i - 1
    ELSE insert_pos(J, q, priority, i + 1)

add_job(m, id, req, priority) ==
    IF queue_full(m) THEN [m |-> m, ok |-> FALSE]
    ELSE LET J == [j \in DOMAIN m.jobs \cup {id} |->
                      IF j = id THEN BatchJob(req, priority) ELSE m.jobs[j]]
         IN [m |-> [m EXCEPT !.jobs = J,
                             !.queue = list_insert(m.queue,
                                          insert_pos(J, m.queue, priority, 1), id)],
             ok |-> TRUE]

not_cancellable(m, id) ==
    \/ id \notin DOMAIN m.jobs
    \/ m.jobs[id].status \in {COMPLETED, FAILED}

cancel_job(m, id) ==
    IF not_cancellable(m, id) THEN [m |-> m, ok |-> FALSE]
    ELSE [m |-> [jobs |-> [m.jobs EXCEPT ![id].status = CANCELLED],
                 queue |-> list_remove(m.queue, id),
                 active_jobs |-> m.active_jobs \ {id}],
          ok |-> TRUE]

\* update_job_progress; status None is the default argument
update_job_progress(m, id, progress, status) ==
    IF id \notin DOMAIN m.jobs THEN m
    ELSE LET j1 == [m.jobs[id] EXCEPT !.progress = progress]
             j2 == IF status # None THEN [j1 EXCEPT !.status = status]
                   ELSE j1
         IN [m EXCEPT !.jobs[id] = j2,
                      !.active_jobs =
                          IF status \in {COMPLETED, FAILED, CANCELLED}
                          THEN m.active_jobs \ {id} ELSE m.active_jobs]

\* the position in the queue of the first id that self.jobs does not hold,
\* 0 if every queued id is registered
first_dangling(m) ==
    IF \A i \in 1..Len(m.queue) : m.queue[i] \in DOMAIN m.jobs THEN 0
    ELSE CHOOSE i \in 1..Len(m.queue) :
            /\ m.queue[i] \notin DOMAIN m.jobs
            /\ \A k \in 1..(i - 1) : m.queue[k] \in DOMAIN m.jobs

\* self.jobs[existing_id] in add_job's loop raises KeyError: the loop comes
\* to an unregistered id before it breaks
add_job_raises(m, priority) ==
    LET d == first_dangling(m)
    IN /\ d > 0
       /\ insert_pos(m.jobs, SubSeq(m.queue, 1, d - 1), priority, 1) = d - 1

\* get_next_job: the first queued id whose job is pending, 0 for None
RECURSIVE next_from(_, _, _)
next_from(J, q, i) ==
    IF i > Len(q) THEN 0
    ELSE IF J[q[i]].status = PENDING THEN q[i]
    ELSE next_from(J, q, i + 1)

get_next_job(m) == next_from(m.jobs, m.queue, 1)

\* self.jobs[job_id] in get_next_job raises KeyError
get_next_job_raises(m) ==
    LET d == first_dangling(m)
    IN /\ d > 0
       /\ next_from(m.jobs, SubSeq(m.queue, 1, d - 1), 1) = 0

\* can_process_more with <= for <
can_process_more_leq(m) == Cardinality(m.active_jobs) <= max_concurrent

can_process_more(m) == Cardinality(m.active_jobs) < max_concurrent

\* start_job leaving the job pending and outside the active set
start_job_unmarked(m, id) == m

start_job(m, id) ==
    IF id \notin DOMAIN m.jobs THEN m
    ELSE [m EXCEPT !.jobs[id].status = PROCESSING,
                   !.active_jobs = m.active_jobs \cup {id}]

\* complete_job leaving the id in the active set
complete_job_keeps_slot(m, id, result) ==
    IF id \notin DOMAIN m.jobs THEN m
    ELSE [jobs |-> [m.jobs EXCEPT ![id].status = COMPLETED,
                                  ![id].progress = 100,
                                  ![id].result = result],
          queue |-> list_remove(m.queue, id),
          active_jobs |-> m.active_jobs]

complete_job(m, id, result) ==
    IF id \notin DOMAIN m.jobs THEN m
    ELSE [jobs |-> [m.jobs EXCEPT ![id].status = COMPLETED,
                                  ![id].progress = 100,
                                  ![id].result = result],
          queue |-> list_remove(m.queue, id),
          active_jobs |-> m.active_jobs \ {id}]

\* fail_job leaving the id in the queue
fail_job_keeps_queue(m, id, error) ==
    IF id \notin DOMAIN m.jobs THEN m
    ELSE [jobs |-> [m.jobs EXCEPT ![id].status = FAILED,
                                  ![id].error = error],
          queue |-> m.queue,
          active_jobs |-> m.active_jobs \ {id}]

fail_job(m, id, error) ==
    IF id \notin DOMAIN m.jobs THEN m
    ELSE [jobs |-> [m.jobs EXCEPT ![id].status = FAILED,
                                  ![id].error = error],
          queue |-> list_remove(m.queue, id),
          active_jobs |-> m.active_jobs \ {id}]

\* retry_job's guard letting a cancelled job through as well
retryable_or_cancelled(m, id) ==
    /\ id \in DOMAIN m.jobs
    /\ m.jobs[id].status \in {FAILED, CANCELLED}

retryable(m, id) ==
    /\ id \in DOMAIN m.jobs
    /\ m.jobs[id].status = FAILED

retry_job(m, id) ==
    IF ~retryable(m, id) THEN [m |-> m, ok |-> FALSE]
    ELSE [m |-> [m EXCEPT !.jobs[id].status = PENDING,
                          !.jobs[id].progress = 0,
                          !.jobs[id].error = None,
                          !.queue = Append(m.queue, id)],
          ok |-> TRUE]

clear_completed(m) ==
    LET keep == {j \in DOMAIN m.jobs :
                    m.jobs[j].status \notin {COMPLETED, FAILED, CANCELLED}}
    IN [m EXCEPT !.jobs = [j \in keep |-> m.jobs[j]]]

\* ------------------------------------------------------- generate_terrain
\* The status generate_terrain returns: it catches every exception of its
\* pipeline and returns a GenerationStatus whose status says how it went.
\* A request over max_area_km2 fails the area check; any other request can
\* complete or fail at a later step (output directory, exporters).
generate_terrain(req) ==
    IF req = "over" THEN {"failed"} ELSE {"completed", "failed"}

\* The area check raises before the first await: that run never suspends.
suspends(req) == req # "over"

\* ---------------------------------------------------------- process_queue
\* process_queue from the head of its loop to its first suspension (it is
\* then inside generate_terrain for .job) or to its exit (.job = 0).
RECURSIVE process_queue(_)
process_queue(m) ==
    IF ~can_process_more(m) THEN [m |-> m, job |-> 0]
    ELSE LET id == get_next_job(m)
         IN IF id = 0 THEN [m |-> m, job |-> 0]
            ELSE LET m1 == start_job(m, id)
                 IN IF suspends(m1.jobs[id].request)
                    THEN [m |-> m1, job |-> id]
                    ELSE process_queue(complete_job(m1, id, "failed"))

SetManager(m) ==
    /\ jobs' = m.jobs
    /\ queue' = m.queue
    /\ active_jobs' = m.active_jobs

\* background_tasks.add_task(process_queue): a new loop is scheduled.  Tasks
\* are anonymous, so the new loop takes the lowest free slot.
\* the history of enqueues e, kept to the ids that stand in queue q
still_queued(e, q) == SelectSeq(e, LAMBDA j : j \in Range(q))

FreeTask(d) ==
    /\ pc[d] = "idle"
    /\ \A e \in Drivers : e < d => pc[e] # "idle"

AddTask(d) ==
    /\ FreeTask(d)
    /\ pc' = [pc EXCEPT ![d] = "scheduled"]

\* the scheduled loop starts running
RunTask(d) ==
    /\ pc[d] = "scheduled"
    /\ LET r == process_queue(Manager)
       IN /\ SetManager(r.m)
          /\ pc' = [pc EXCEPT ![d] = IF r.job = 0 THEN "idle" ELSE "run"]
          /\ cur' = [cur EXCEPT ![d] = r.job]
    /\ last' = Other
    /\ enq' = still_queued(enq, queue')
    /\ UNCHANGED <<max_concurrent, max_queue_size, nextId>>

\* generate_terrain returns to the loop (outcome is the status it returns),
\* or the try block raises (outcome "raise"); the loop then goes on.
ResumeTask(d, outcome) ==
    /\ pc[d] = "run"
    /\ outcome \in generate_terrain(
                      IF cur[d] \in DOMAIN jobs THEN jobs[cur[d]].request
                      ELSE "within") \cup {"raise"}
    /\ LET m1 == IF outcome = "raise"
                 THEN fail_job(Manager, cur[d], "error")
                 ELSE complete_job(Manager, cur[d], outcome)
           r == process_queue(m1)
       IN /\ SetManager(r.m)
          /\ pc' = [pc EXCEPT ![d] = IF r.job = 0 THEN "idle" ELSE "run"]
          /\ cur' = [cur EXCEPT ![d] = r.job]
    /\ last' = Other
    /\ enq' = still_queued(enq, queue')
    /\ UNCHANGED <<max_concurrent, max_queue_size, nextId>>

\* ------------------------------------------------------------- handlers
\* the loop of add_batch_jobs over request.jobs, from its i-th request;
\* .out holds per request the id of the job queued, SKIPPED or FULL
RECURSIVE add_loop(_, _, _, _, _)
add_loop(m, reqs, priority, id, i) ==
    IF i > Len(reqs) THEN [m |-> m, out |-> <<>>, id |-> id]
    ELSE IF reqs[i] = "zero"
         THEN LET r == add_loop(m, reqs, priority, id, i + 1)
              IN [r EXCEPT !.out = <<SKIPPED>> \o r.out]
    ELSE LET a == add_job(m, id, reqs[i], priority)
         IN IF a.ok
            THEN LET r == add_loop(a.m, reqs, priority, id + 1, i + 1)
                 IN [r EXCEPT !.out = <<id>> \o r.out]
            ELSE LET r == add_loop(m, reqs, priority, id, i + 1)
                 IN [r EXCEPT !.out = <<FULL>> \o r.out]

Batches == UNION {[1..n -> Areas] : n \in 0..MaxBatch}

added(out) == SelectSeq(out, LAMBDA x : x > 0)

add_batch_jobs(reqs, priority, d) ==
    /\ IF Len(reqs) = 0 \/ Len(reqs) > max_queue_size
       THEN /\ last' = Other
            /\ UNCHANGED <<jobs, queue, active_jobs, nextId, pc, cur, enq>>
       ELSE LET r == add_loop(Manager, reqs, priority, nextId, 1)
            IN /\ SetManager(r.m)
               /\ nextId' = r.id
               /\ enq' = still_queued(enq \o added(r.out), r.m.queue)
               /\ AddTask(d)
               /\ last' = [op |-> "add", ret |-> r.out]
               /\ UNCHANGED cur
    /\ UNCHANGED <<max_concurrent, max_queue_size>>

cancel_batch_job(id) ==
    LET r == cancel_job(Manager, id)
    IN /\ SetManager(r.m)
       /\ last' = [op |-> "cancel", ret |-> r.ok]
       /\ enq' = still_queued(enq, r.m.queue)
       /\ UNCHANGED <<max_concurrent, max_queue_size, nextId, pc, cur>>

retry_batch_job(id, d) ==
    LET r == retry_job(Manager, id)
    IN /\ SetManager(r.m)
       /\ IF r.ok
          THEN /\ AddTask(d)
               /\ enq' = list_remove(enq, id) \o <<id>>
          ELSE UNCHANGED <<pc, enq>>
       /\ last' = [op |-> "retry", ret |-> r.ok]
       /\ UNCHANGED <<max_concurrent, max_queue_size, nextId, cur>>

clear_completed_jobs ==
    LET m == clear_completed(Manager)
    IN /\ SetManager(m)
       /\ enq' = still_queued(enq, m.queue)
       /\ last' = Other
       /\ UNCHANGED <<max_concurrent, max_queue_size, nextId, pc, cur>>

trigger_processing(d) ==
    /\ AddTask(d)
    /\ last' = Other
    /\ UNCHANGED <<max_concurrent, max_queue_size, jobs, queue, active_jobs,
                   nextId, cur, enq>>

\* ---------------------------------------------------- TerrainCacheManager
\* Sizes are counted in units of a byte count, times in ticks of the clock
\* datetime.now() reads.  last_accessed is kept as an ISO-8601 string and
\* sorted as a string; for the fixed-width stamps isoformat() writes that is
\* the order of the instants, so a stamp is modelled by its tick.
NumKeys == 2          \* cache keys in use in a run
MaxResultSize == 3    \* the size of a result directory is in 1..MaxResultSize
MaxCacheSize == 2     \* max_cache_size of the manager under check
MaxAge == 0           \* max_age of the manager under check, in ticks
MaxTime == 1          \* the clock stops at MaxTime
MaxAccess == 1        \* hits counted per entry
MaxTotal == 4         \* total_size is followed up to MaxTotal

Keys == 1..NumKeys
Sizes == 1..MaxResultSize

\* the cache's state as one value c = [entries, total_size, disk]
Cache == [entries |-> entries, total_size |-> total_size, disk |-> disk]

has_key(es, key) == \E i \in 1..Len(es) : es[i].key = key
entry_of(es, key) == es[CHOOSE i \in 1..Len(es) : es[i].key = key]
\* del d[key]
dict_del(es, key) == SelectSeq(es, LAMBDA e : e.key # key)
\* d[key] = e: an existing key keeps its place, a new key goes last
dict_set(es, e) ==
    IF has_key(es, e.key)
    THEN [i \in 1..Len(es) |-> IF es[i].key = e.key THEN e ELSE es[i]]
    ELSE Append(es, e)

RECURSIVE sum_sizes(_)
sum_sizes(es) == IF es = <<>> THEN 0 ELSE Head(es).size + sum_sizes(Tail(es))

max0(x) == IF x > 0 THEN x ELSE 0

invalidate_cache(c, key) ==
    IF ~has_key(c.entries, key) THEN c
    ELSE [entries |-> dict_del(c.entries, key),
          total_size |-> max0(c.total_size - entry_of(c.entries, key).size),
          disk |-> c.disk \ {key}]

\* sorted(items, key=last_accessed): a stable sort, by insertion
RECURSIVE sort_insert(_, _)
sort_insert(sorted, e) ==
    IF sorted = <<>> THEN <<e>>
    ELSE IF e.last_accessed < Head(sorted).last_accessed
         THEN <<e>> \o sorted
         ELSE <<Head(sorted)>> \o sort_insert(Tail(sorted), e)

RECURSIVE sorted_by_last_accessed(_)
sorted_by_last_accessed(es) ==
    IF es = <<>> THEN <<>>
    ELSE sort_insert(sorted_by_last_accessed(SubSeq(es, 1, Len(es) - 1)),
                     es[Len(es)])

\* the loop of _evict_old_entries over the sorted snapshot, from its i-th item
RECURSIVE evict_loop(_, _, _, _, _)
evict_loop(c, snapshot, needed_space, freed_space, i) ==
    IF i > Len(snapshot) \/ freed_space >= needed_space THEN c
    ELSE evict_loop(invalidate_cache(c, snapshot[i].key), snapshot,
                    needed_space, freed_space + snapshot[i].size, i + 1)

evict_old_entries(c, needed_space) ==
    evict_loop(c, sorted_by_last_accessed(c.entries), needed_space, 0, 1)

needs_space(current_size, result_size) ==
    current_size + result_size > max_cache_size

\* store_result writing the index entry before the copy
store_result_index_first(c, key, result_size, copy) ==
    LET current_size == c.total_size
        c1 == IF needs_space(current_size, result_size)
              THEN evict_old_entries(c, result_size) ELSE c
        c2 == [c1 EXCEPT !.disk = c1.disk \ {key},
                         !.entries = dict_set(c1.entries,
                                   [key |-> key, size |-> result_size,
                                    created |-> now, last_accessed |-> now,
                                    access_count |-> 0])]
    IN IF copy = "ok"
       THEN [c |-> [c2 EXCEPT !.total_size = current_size + result_size,
                              !.disk = c2.disk \cup {key}],
             ok |-> TRUE]
       ELSE [c |-> [c2 EXCEPT !.disk = IF copy = "partial"
                                       THEN c2.disk \cup {key} ELSE c2.disk],
             ok |-> FALSE]

\* store_result; copy is how shutil.copytree ends: "ok", "nosrc" (it raises
\* before it creates the target) or "partial" (it raises after)
store_result(c, key, result_size, copy) ==
    LET current_size == c.total_size
        c1 == IF needs_space(current_size, result_size)
              THEN evict_old_entries(c, result_size) ELSE c
        c2 == [c1 EXCEPT !.disk = c1.disk \ {key}]
    IN IF copy = "ok"
       THEN [c |-> [entries |-> dict_set(c2.entries,
                                   [key |-> key, size |-> result_size,
                                    created |-> now, last_accessed |-> now,
                                    access_count |-> 0]),
                    total_size |-> current_size + result_size,
                    disk |-> c2.disk \cup {key}],
             ok |-> TRUE]
       ELSE [c |-> [c2 EXCEPT !.disk = IF copy = "partial"
                                       THEN c2.disk \cup {key} ELSE c2.disk],
             ok |-> FALSE]

expired_geq(e) == now - e.created >= max_age

expired(e) == now - e.created > max_age

get_cached_result(c, key) ==
    IF ~has_key(c.entries, key) THEN [c |-> c, path |-> 0]
    ELSE LET e == entry_of(c.entries, key)
         IN IF key \notin c.disk
            THEN [c |-> [c EXCEPT !.entries = dict_del(c.entries, key)],
                  path |-> 0]
            ELSE IF expired(e)
            THEN [c |-> invalidate_cache(c, key), path |-> 0]
            ELSE [c |-> [c EXCEPT !.entries =
                            dict_set(c.entries,
                               [e EXCEPT !.last_accessed = now,
                                         !.access_count = e.access_count + 1])],
                  path |-> key]

RECURSIVE clear_loop(_, _, _)
clear_loop(c, keys, i) ==
    IF i > Len(keys) THEN c
    ELSE clear_loop(invalidate_cache(c, keys[i].key), keys, i + 1)

clear_cache(c) ==
    [clear_loop(c, c.entries, 1) EXCEPT !.entries = <<>>, !.total_size = 0]

SetCache(c) ==
    /\ entries' = c.entries
    /\ total_size' = c.total_size
    /\ disk' = c.disk

StoreResult(key, result_size, copy) ==
    LET r == store_result(Cache, key, result_size, copy)
    IN /\ total_size + result_size <= MaxTotal
       /\ SetCache(r.c)
       /\ clast' = [op |-> "store", key |-> key, size |-> result_size,
                    ret |-> r.ok]
       /\ UNCHANGED <<max_cache_size, max_age, now>>

GetCachedResult(key) ==
    LET r == get_cached_result(Cache, key)
    IN /\ has_key(entries, key) =>
             entry_of(entries, key).access_count < MaxAccess
       /\ SetCache(r.c)
       /\ clast' = [op |-> "get", key |-> key, size |-> 0, ret |-> r.path # 0]
       /\ UNCHANGED <<max_cache_size, max_age, now>>

\* DELETE /api/cache/{cache_key}
delete_cache_entry(key) ==
    /\ IF has_key(entries, key)
       THEN SetCache(invalidate_cache(Cache, key))
       ELSE UNCHANGED <<entries, total_size, disk>>
    /\ clast' = [op |-> "invalidate", key |-> key, size |-> 0,
                 ret |-> has_key(entries, key)]
    /\ UNCHANGED <<max_cache_size, max_age, now>>

ClearCache ==
    /\ SetCache(clear_cache(Cache))
    /\ clast' = [op |-> "clear", key |-> 0, size |-> 0, ret |-> TRUE]
    /\ UNCHANGED <<max_cache_size, max_age, now>>

\* invalidate_cache statement by statement: first shutil.rmtree(cache_path)
invalidate_rmtree(key) ==
    /\ clast.op # "rmtree"
    /\ has_key(entries, key)
    /\ disk' = disk \ {key}
    /\ clast' = [op |-> "rmtree", key |-> key, size |-> 0, ret |-> TRUE]
    /\ UNCHANGED <<max_cache_size, max_age, entries, total_size, now>>

\* then total_size is lowered and the entry deleted from the index
invalidate_del_entry ==
    /\ clast.op = "rmtree"
    /\ total_size' = max0(total_size - entry_of(entries, clast.key).size)
    /\ entries' = dict_del(entries, clast.key)
    /\ clast' = [op |-> "invalidate", key |-> clast.key, size |-> 0,
                 ret |-> TRUE]
    /\ UNCHANGED <<max_cache_size, max_age, disk, now>>

\* a cached directory disappears from the disk behind the manager's back
PathLost(key) ==
    /\ key \in disk
    /\ disk' = disk \ {key}
    /\ clast' = [op |-> "lost", key |-> key, size |-> 0, ret |-> TRUE]
    /\ UNCHANGED <<max_cache_size, max_age, entries, total_size, now>>

Tick ==
    /\ now < MaxTime
    /\ now' = now + 1
    /\ clast' = [op |-> "tick", key |-> 0, size |-> 0, ret |-> TRUE]
    /\ UNCHANGED <<max_cache_size, max_age, entries, total_size, disk>>

\* TerrainCacheManager.__init__ over an empty cache directory
CInit ==
    /\ max_cache_size = MaxCacheSize
    /\ max_age = MaxAge
    /\ entries = <<>>
    /\ total_size = 0
    /\ disk = {}
    /\ now = 0
    /\ clast = [op |-> "init", key |-> 0, size |-> 0, ret |-> TRUE]

Store == /\ \E key \in Keys, n \in Sizes, copy \in {"ok", "nosrc", "partial"} :
               StoreResult(key, n, copy)
         /\ UNCHANGED <<qvars, xvars>>
Get == /\ \E key \in Keys : GetCachedResult(key)
       /\ UNCHANGED <<qvars, xvars>>
Invalidate == /\ \E key \in Keys : delete_cache_entry(key)
              /\ UNCHANGED <<qvars, xvars>>
ClearAll == ClearCache /\ UNCHANGED <<qvars, xvars>>
Lost == /\ \E key \in Keys : PathLost(key)
        /\ UNCHANGED <<qvars, xvars>>
Elapse == Tick /\ UNCHANGED <<qvars, xvars>>


\* --------------------------------------------------- TerraForgeGenerator
\* The functions of the pipeline, each over the behaviour of what it calls.
MaxFormats == 3       \* length of request.export_formats

NoCall == [op |-> "none"]

\* ExportFormat, and the rank of each value in the order of str
ExportFormat == {"unreal5", "unity", "gltf", "geotiff", "obj", "all"}
format_rank(f) ==
    CASE f = "all" -> 1 [] f = "geotiff" -> 2 [] f = "gltf" -> 3
      [] f = "obj" -> 4 [] f = "unity" -> 5 [] f = "unreal5" -> 6

FormatLists == UNION {[1..n -> ExportFormat] : n \in 0..MaxFormats}

\* the exporter classes _export_terrain instantiates
Exporters == {"Unreal5Heightmap", "Unreal5Weightmap", "Unity", "GLTF", "GeoTIFF"}

\* results[k] = v on the manifest, kept in dict order
manifest_set(results, k, v) ==
    IF \E i \in 1..Len(results) : results[i].format = k
    THEN [i \in 1..Len(results) |->
             IF results[i].format = k THEN [format |-> k, entry |-> v]
             ELSE results[i]]
    ELSE Append(results, [format |-> k, entry |-> v])

\* does the try block of one format raise: raising is the set of exporters
\* whose export() raises
export_raises(fmt, weightmaps, raising) ==
    CASE fmt = "unreal5" -> \/ "Unreal5Heightmap" \in raising
                            \/ (weightmaps /\ "Unreal5Weightmap" \in raising)
      [] fmt = "unity" -> "Unity" \in raising
      [] fmt = "gltf" -> "GLTF" \in raising
      [] fmt = "geotiff" -> "GeoTIFF" \in raising
      [] OTHER -> FALSE

\* the body of the loop over formats for one format
export_one(results, fmt, weightmaps, raising) ==
    IF export_raises(fmt, weightmaps, raising)
    THEN manifest_set(results, fmt, "error")
    ELSE IF fmt \in {"unreal5", "unity", "gltf", "geotiff"}
         THEN manifest_set(results, fmt, "files")
         ELSE results

\* the loop with no handler around a format: the first raise ends it
RECURSIVE export_loop_stop(_, _, _, _, _)
export_loop_stop(results, formats, i, weightmaps, raising) ==
    IF i > Len(formats) THEN results
    ELSE IF export_raises(formats[i], weightmaps, raising)
         THEN manifest_set(results, formats[i], "error")
         ELSE export_loop_stop(export_one(results, formats[i], weightmaps, raising),
                               formats, i + 1, weightmaps, raising)

RECURSIVE export_loop(_, _, _, _, _)
export_loop(results, formats, i, weightmaps, raising) ==
    IF i > Len(formats) THEN results
    ELSE export_loop(export_one(results, formats[i], weightmaps, raising),
                     formats, i + 1, weightmaps, raising)

expand_all(formats) ==
    IF "all" \in Range(formats)
    THEN <<"unreal5", "unity", "gltf", "geotiff">>
    ELSE formats

export_terrain(formats, weightmaps, raising) ==
    export_loop(<<>>, expand_all(formats), 1, weightmaps, raising)

ExportTerrain(formats, weightmaps, raising) ==
    pipe' = [op |-> "export", formats |-> formats, weightmaps |-> weightmaps,
             raising |-> raising,
             out |-> export_terrain(formats, weightmaps, raising)]

\* ElevationSource, and the names _initialize_sources may register an
\* elevation source under: none is registered under "srtm"
ElevationSource == {"srtm", "opentopography", "sentinelhub", "azure_maps", "auto"}
Registrable == {"opentopography", "azure_maps", "sentinelhub"}

\* what a source does when asked: "absent" (not in self.sources),
\* "unavailable" (is_available() false), "avail_raises" (is_available()
\* raises), "none" (returns None or an empty result), "raises", "data"
SourceBehaviour == {"absent", "unavailable", "avail_raises", "none", "raises", "data"}
behaviour(beh, name) == IF name \in DOMAIN beh THEN beh[name] ELSE "absent"

\* request.resolution is Optional[int] with no lower bound; 0 stands for the
\* values np.linspace and Z.min() do not take (None, 0, negatives)
Resolutions == {0, 2048}

priority_of(source_priority) ==
    IF source_priority = "auto"
    THEN <<"opentopography", "azure_maps", "srtm">>
    ELSE <<source_priority>>

generate_synthetic_terrain(resolution) ==
    IF resolution >= 1
    THEN [kind |-> "synthetic", source |-> None]
    ELSE [kind |-> "raise", source |-> None]

\* the loop of _get_elevation_data from the i-th name of priority, then the
\* fallback; asked: the sources whose is_available() was awaited, called:
\* those whose get_elevation_data() was awaited
RECURSIVE elevation_loop(_, _, _, _)
elevation_loop(priority, i, beh, resolution) ==
    IF i > Len(priority)
    THEN [ret |-> generate_synthetic_terrain(resolution),
          asked |-> <<>>, called |-> <<>>]
    ELSE LET name == priority[i]
             b == behaviour(beh, name)
             rest == elevation_loop(priority, i + 1, beh, resolution)
         IN CASE b = "absent" -> rest
              [] b \in {"unavailable", "avail_raises"} ->
                    [rest EXCEPT !.asked = <<name>> \o rest.asked]
              [] b \in {"none", "raises"} ->
                    [rest EXCEPT !.asked = <<name>> \o rest.asked,
                                 !.called = <<name>> \o rest.called]
              [] b = "data" ->
                    [ret |-> [kind |-> "data", source |-> name],
                     asked |-> <<name>>, called |-> <<name>>]

get_elevation_data(resolution, source_priority, beh) ==
    elevation_loop(priority_of(source_priority), 1, beh, resolution)

GetElevationData(resolution, source_priority, beh) ==
    pipe' = [op |-> "elevation", resolution |-> resolution,
             source_priority |-> source_priority, beh |-> beh,
             out |-> get_elevation_data(resolution, source_priority, beh)]

\* what osm.get_vector_data does: OSM is always registered and its
\* is_available() is not asked
OsmBehaviour == {"none", "raises", "data"}

\* the Azure Maps fallback of _get_vector_data
azure_vector(b) ==
    CASE b \in {"absent", "unavailable", "avail_raises"} ->
            [ret |-> [kind |-> "none", source |-> None], called |-> <<>>]
      [] b \in {"none", "raises"} ->
            [ret |-> [kind |-> "none", source |-> None],
             called |-> <<"azure_maps">>]
      [] b = "data" ->
            [ret |-> [kind |-> "data", source |-> "azure_maps"],
             called |-> <<"azure_maps">>]

\* _get_vector_data with no handler around the OSM call
get_vector_data_unguarded(osm, azure) ==
    IF osm = "data"
    THEN [ret |-> [kind |-> "data", source |-> "osm"], called |-> <<"osm">>]
    ELSE IF osm = "raises"
    THEN [ret |-> [kind |-> "raise", source |-> None], called |-> <<"osm">>]
    ELSE LET r == azure_vector(azure)
         IN [r EXCEPT !.called = <<"osm">> \o r.called]

get_vector_data(osm, azure) ==
    IF osm = "data"
    THEN [ret |-> [kind |-> "data", source |-> "osm"], called |-> <<"osm">>]
    ELSE LET r == azure_vector(azure)
         IN [r EXCEPT !.called = <<"osm">> \o r.called]

\* ------------------------------------------------- generate_cache_key
\* Coordinates are counted in units of 1e-7 degree.
CoordLo == 4
CoordHi == 6
Coords == CoordLo..CoordHi

\* round(x, 6): to the nearest multiple of 10 units, a tie to the even one
round6(x) ==
    LET q == x \div 10
        r == x % 10
    IN IF r < 5 THEN 10 * q
       ELSE IF r > 5 THEN 10 * (q + 1)
       ELSE IF q % 2 = 0 THEN 10 * q ELSE 10 * (q + 1)

\* sorted(export_formats)
RECURSIVE sorted_insert(_, _)
sorted_insert(sorted, f) ==
    IF sorted = <<>> THEN <<f>>
    ELSE IF format_rank(f) < format_rank(Head(sorted)) THEN <<f>> \o sorted
    ELSE <<Head(sorted)>> \o sorted_insert(Tail(sorted), f)

RECURSIVE sorted_formats(_)
sorted_formats(formats) ==
    IF formats = <<>> THEN <<>>
    ELSE sorted_insert(sorted_formats(Tail(formats)), Head(formats))

\* sha256 over the canonical JSON of cache_input: the key is taken to be
\* cache_input itself, so equal keys are equal inputs of the hash
generate_cache_key(bbox, config) ==
    [bbox |-> [north |-> round6(bbox.north), south |-> round6(bbox.south),
               east |-> round6(bbox.east), west |-> round6(bbox.west)],
     config |-> [resolution |-> config.resolution,
                 export_formats |-> sorted_formats(config.export_formats)]]

\* the boxes and configs of the key: east and west go through the same
\* round() as north and south and are held at one value
KeyBoxes == [north : Coords, south : Coords, east : {CoordLo}, west : {CoordLo}]
KeyFormats == UNION {[1..n -> {"unity", "gltf"}] : n \in 0..2}
KeyConfigs == [resolution : {2048}, export_formats : KeyFormats]

GenerateCacheKey(b1, c1, b2, c2) ==
    pipe' = [op |-> "key", b1 |-> b1, c1 |-> c1, b2 |-> b2, c2 |-> c2,
             k1 |-> generate_cache_key(b1, c1),
             k2 |-> generate_cache_key(b2, c2)]

\* ------------------------------------------- POST /api/generate and tasks
MaxTasks == 2         \* tasks submitted in a run

max_area_km2 == 100
\* km2 of a box one unit high and one unit wide: the latitudes stand 0.05
\* degree apart near the equator, where cos(radians(avg_lat)) is 1
UnitArea == 31

\* BoundingBox.area_km2
area_km2(bbox) ==
    LET lat_diff == bbox.north - bbox.south
        lon_diff == bbox.east - bbox.west
        a == lat_diff * lon_diff * UnitArea
    IN IF a < 0 THEN 0 - a ELSE a

\* the requests submitted: every other field is left at its default
\* (export_formats [unreal5], elevation_source auto, enable_weightmaps true);
\* vectors is enable_roads or enable_buildings
Lats == {0, 1}
Boxes == [north : Lats, south : Lats, east : {2}, west : {0}]
Requests == [bbox : Boxes, resolution : Resolutions, vectors : BOOLEAN]

\* GenerationStatus(...): the fields of the model class
GenerationStatus(task_id, status, progress, current_step, message) ==
    [task_id |-> task_id, status |-> status, progress |-> progress,
     current_step |-> current_step, message |-> message,
     result |-> None, error |-> None]

TaskIds == 1..MaxTasks
in_flight == {t \in DOMAIN task_pc : task_pc[t] # "done"}

\* the locals of generate_terrain, none bound
NoLocals == [elevation |-> None, vector |-> None]

\* generate_terrain(request) of api/main.py up to the response
SubmitRequest(request) ==
    LET area == area_km2(request.bbox)
        task_id == Len(active_tasks) + 1
    IN IF area > max_area_km2 \/ area <= 0
       THEN \* HTTP 400
            /\ pipe' = NoCall
            /\ UNCHANGED <<active_tasks, task_req, task_pc, task_data>>
       ELSE /\ active_tasks' = Append(active_tasks,
                                  GenerationStatus(task_id, "pending", 0,
                                       "Queued for processing", "queued"))
            /\ task_req' = Append(task_req, request)
            /\ task_pc' = Append(task_pc, "scheduled")
            /\ task_data' = Append(task_data, NoLocals)
            /\ pipe' = NoCall

\* the except clause of generate_terrain
task_failed(st, error) == [st EXCEPT !.status = "failed", !.error = error]

at_step(st, current_step, progress) ==
    [st EXCEPT !.current_step = current_step, !.progress = progress]

\* run_generation starts: generate_terrain up to its first await
StartGeneration(t) ==
    /\ task_pc[t] = "scheduled"
    /\ LET st == GenerationStatus(t, "processing", 0, "Initializing", None)
       IN IF area_km2(task_req[t].bbox) > max_area_km2
          THEN /\ active_tasks' = [active_tasks EXCEPT ![t] = task_failed(st, "Area too large")]
               /\ task_pc' = [task_pc EXCEPT ![t] = "done"]
          ELSE /\ active_tasks' = [active_tasks EXCEPT
                                     ![t] = at_step(st, "Acquiring elevation data", 10)]
               /\ task_pc' = [task_pc EXCEPT ![t] = "elevation"]
    /\ pipe' = NoCall
    /\ UNCHANGED <<task_req, task_data>>

\* _get_elevation_data returns to generate_terrain, which goes on to its
\* next await: _get_vector_data when roads or buildings are enabled, else
\* (weightmaps are computed without a suspension) _export_terrain
ElevationDone(t, beh) ==
    /\ task_pc[t] = "elevation"
    /\ LET r == get_elevation_data(task_req[t].resolution, "auto", beh)
       IN /\ pipe' = [op |-> "elevation", task |-> t, out |-> r]
          /\ IF r.ret.kind = "raise"
             THEN /\ active_tasks' = [active_tasks EXCEPT
                                        ![t] = task_failed(@, "synthetic terrain")]
                  /\ task_pc' = [task_pc EXCEPT ![t] = "done"]
                  /\ task_data' = [task_data EXCEPT ![t] = NoLocals]
             ELSE /\ task_data' = [task_data EXCEPT ![t].elevation = r.ret.kind]
                  /\ IF task_req[t].vectors
                     THEN /\ active_tasks' = [active_tasks EXCEPT
                                ![t] = at_step(@, "Extracting vector features", 30)]
                          /\ task_pc' = [task_pc EXCEPT ![t] = "vector"]
                     ELSE /\ active_tasks' = [active_tasks EXCEPT
                                ![t] = at_step(@, "Exporting terrain", 70)]
                          /\ task_pc' = [task_pc EXCEPT ![t] = "export"]
    /\ UNCHANGED task_req

\* _get_vector_data returns to generate_terrain
VectorDone(t, osm, azure) ==
    /\ task_pc[t] = "vector"
    /\ LET r == get_vector_data(osm, azure)
       IN /\ pipe' = [op |-> "vector", task |-> t, osm |-> osm, azure |-> azure,
                      out |-> r]
          /\ task_data' = [task_data EXCEPT ![t].vector = r.ret.kind]
    /\ active_tasks' = [active_tasks EXCEPT ![t] = at_step(@, "Exporting terrain", 70)]
    /\ task_pc' = [task_pc EXCEPT ![t] = "export"]
    /\ UNCHANGED task_req

\* _export_terrain returns and generate_terrain finishes
ExportDone(t, raising) ==
    /\ task_pc[t] = "export"
    /\ active_tasks' = [active_tasks EXCEPT
           ![t] = [at_step(@, "Complete", 100) EXCEPT
                      !.status = "completed",
                      !.result = export_terrain(<<"unreal5">>, TRUE, raising)]]
    /\ task_pc' = [task_pc EXCEPT ![t] = "done"]
    /\ task_data' = [task_data EXCEPT ![t] = NoLocals]
    /\ pipe' = NoCall
    /\ UNCHANGED task_req

\* ------------------------------------------ websocket_generation_updates
NoSocket == [pc |-> "none", task_id |-> 0, found |-> FALSE,
             last_status |-> <<>>, sent |-> <<>>]

\* the attributes status_dict is built from
StatusDictFields ==
    {"task_id", "status", "progress", "current_step", "message", "error",
     "download_url"}

\* the socket is accepted and the confirmation sent
ConnectSocket(task_id) ==
    /\ ws.pc = "none"
    /\ ws' = [NoSocket EXCEPT !.pc = "poll", !.task_id = task_id,
                              !.sent = <<[type |-> "connected"]>>]

\* one turn of the polling loop; last_status is <<>> for None
PollStatus ==
    /\ ws.pc = "poll"
    /\ IF ws.task_id \notin DOMAIN active_tasks
       THEN ws' = [ws EXCEPT !.pc = "closed",
                             !.sent = Append(@, [type |-> "error"])]
       ELSE LET status == active_tasks[ws.task_id]
            IN IF \E f \in StatusDictFields : f \notin DOMAIN status
               THEN \* AttributeError, caught in the loop
                    ws' = [ws EXCEPT !.pc = "closed", !.found = TRUE,
                                     !.sent = Append(@, [type |-> "error"])]
               ELSE LET status_dict == [type |-> "status_update",
                                        status |-> status.status,
                                        progress |-> status.progress,
                                        current_step |-> status.current_step]
                        push == ws.last_status # <<status_dict>>
                    IN ws' = [ws EXCEPT
                                !.found = TRUE,
                                !.sent = IF push THEN Append(@, status_dict) ELSE @,
                                !.last_status = <<status_dict>>,
                                !.pc = IF status.status \in {"completed", "failed"}
                                       THEN "closed" ELSE "poll"]

\* the pipeline functions, no call made yet
GInit ==
    /\ active_tasks = <<>>
    /\ task_req = <<>>
    /\ task_pc = <<>>
    /\ task_data = <<>>
    /\ ws = NoSocket

XIdle == pipe = NoCall /\ GInit

\* A pipeline function reads nothing an earlier call wrote, so each call is
\* made on the state no call has touched.
Export == /\ pipe = NoCall
          /\ \E formats \in FormatLists, weightmaps \in BOOLEAN,
                raising \in SUBSET Exporters :
                ExportTerrain(formats, weightmaps, raising)
          /\ UNCHANGED <<qvars, cvars, gvars>>
Elevation == /\ pipe = NoCall
             /\ \E resolution \in Resolutions, sp \in ElevationSource,
                   beh \in [Registrable -> SourceBehaviour] :
                   GetElevationData(resolution, sp, beh)
             /\ UNCHANGED <<qvars, cvars, gvars>>
Fingerprint == /\ pipe = NoCall
               /\ \E b1 \in KeyBoxes, b2 \in KeyBoxes,
                     c1 \in KeyConfigs, c2 \in KeyConfigs :
                     GenerateCacheKey(b1, c1, b2, c2)
               /\ UNCHANGED <<qvars, cvars, gvars>>


\* ------------------------------------------------------ specifications
\* BatchQueueManager.__init__ and the tasks, none started
QInit ==
    /\ max_concurrent = MaxConcurrent
    /\ max_queue_size = MaxQueueSize
    /\ jobs = <<>>
    /\ queue = <<>>
    /\ active_jobs = {}
    /\ nextId = 1
    /\ pc = [d \in Drivers |-> "idle"]
    /\ cur = [d \in Drivers |-> 0]
    /\ enq = <<>>
    /\ last = Other

AddBatch == /\ \E reqs \in Batches, p \in Priorities, d \in Drivers :
                  /\ nextId + Len(reqs) <= MaxJobs + 1
                  /\ add_batch_jobs(reqs, p, d)
            /\ UNCHANGED <<cvars, xvars>>
Cancel == /\ \E id \in JobIds : cancel_batch_job(id)
          /\ UNCHANGED <<cvars, xvars>>
Retry == /\ \E id \in JobIds, d \in Drivers : retry_batch_job(id, d)
         /\ UNCHANGED <<cvars, xvars>>
Clear == clear_completed_jobs /\ UNCHANGED <<cvars, xvars>>
Trigger == /\ \E d \in Drivers : trigger_processing(d)
           /\ UNCHANGED <<cvars, xvars>>
Run == /\ \E d \in Drivers : RunTask(d)
       /\ UNCHANGED <<cvars, xvars>>
Resume == /\ \E d \in Drivers, o \in {"completed", "failed", "raise"} :
                ResumeTask(d, o)
          /\ UNCHANGED <<cvars, xvars>>

\* the batch queue with its handlers and loops, the cache untouched
Init == QInit /\ CInit /\ XIdle
Next == AddBatch \/ Cancel \/ Retry \/ Clear \/ Trigger \/ Run \/ Resume

Spec == Init /\ [][Next]_vars

\* The same system under the event loop's scheduling: asyncio runs its ready
\* tasks in turn, so a loop that is scheduled does start, and a loop inside
\* generate_terrain goes on once the pipeline run has ended, which every run
\* is taken to do.  The clients are under no obligation.
\* A step of loop d is told by what it does to the loop's own position: only
\* RunTask(d) takes pc[d] off "scheduled", and only ResumeTask(d, o) moves a
\* loop that is inside the pipeline, to its exit or to another job.
loop_pos == <<pc, cur>>

RunFair(d) ==
    /\ pc[d] = "scheduled"
    /\ \E s \in {"idle", "run"}, j \in {0} \cup JobIds :
          /\ pc' = [pc EXCEPT ![d] = s]
          /\ cur' = [cur EXCEPT ![d] = j]

ResumeFair(d) ==
    /\ pc[d] = "run"
    /\ \E s \in {"idle", "run"}, j \in {0} \cup JobIds :
          /\ s = "run" => j # cur[d]
          /\ pc' = [pc EXCEPT ![d] = s]
          /\ cur' = [cur EXCEPT ![d] = j]

\* the loops are those add_batch_jobs and retry_batch_job start; jobs that
\* have ended stay registered
FairNext == AddBatch \/ Cancel \/ Retry \/ Run \/ Resume

FairSpec ==
    /\ Init
    /\ [][FairNext]_vars
    /\ \A d \in Drivers :
          WF_loop_pos(RunFair(d)) /\ WF_loop_pos(ResumeFair(d))

\* Submissions and processing only: single requests of admissible area whose
\* pipeline runs complete, no cancel, retry or clear; the queue has room for
\* every job of the run.
OrderJobs == 4
OrderPriorities == {1, 3, 5}

OrderInit ==
    /\ max_concurrent = MaxConcurrent
    /\ max_queue_size = OrderJobs
    /\ jobs = <<>>
    /\ queue = <<>>
    /\ active_jobs = {}
    /\ nextId = 1
    /\ pc = [d \in Drivers |-> "idle"]
    /\ cur = [d \in Drivers |-> 0]
    /\ enq = <<>>
    /\ last = Other

OrderAdd == /\ \E p \in OrderPriorities, d \in Drivers :
                  /\ nextId <= OrderJobs
                  /\ add_batch_jobs(<<"within">>, p, d)
            /\ UNCHANGED <<cvars, xvars>>

OrderSpecInit == OrderInit /\ CInit /\ XIdle
OrderDone == /\ \E d \in Drivers : ResumeTask(d, "completed")
             /\ UNCHANGED <<cvars, xvars>>

OrderSpecNext == OrderAdd \/ Run \/ OrderDone

OrderSpec == OrderSpecInit /\ [][OrderSpecNext]_vars

\* the cache alone, the queue idle
QIdle == QInit

CacheInit == CInit /\ QIdle /\ XIdle
CacheNext == Store \/ Get \/ Invalidate \/ ClearAll \/ Lost \/ Elapse

CacheSpec == CacheInit /\ [][CacheNext]_vars

\* lookups over results of one unit each: what get_cached_result does with
\* an entry does not depend on its size
StoreUnit == /\ \E key \in Keys : StoreResult(key, 1, "ok")
             /\ UNCHANGED <<qvars, xvars>>

LookupInit == CInit /\ QIdle /\ XIdle
LookupNext == StoreUnit \/ Get \/ Lost \/ Elapse

LookupSpec == LookupInit /\ [][LookupNext]_vars

\* stores of every size and copy outcome, deletions and lost directories, at
\* one instant
StoreInit == CInit /\ QIdle /\ XIdle
StoreNext == Store \/ Invalidate \/ Lost

StoreSpec == StoreInit /\ [][StoreNext]_vars

\* invalidate_cache taken one statement at a time, between whole stores
StoreWhole == clast.op # "rmtree" /\ Store
Rmtree == /\ \E key \in Keys : invalidate_rmtree(key)
          /\ UNCHANGED <<qvars, xvars>>
DelEntry == invalidate_del_entry /\ UNCHANGED <<qvars, xvars>>

StepInit == CInit /\ QIdle /\ XIdle
StepNext == StoreWhole \/ Rmtree \/ DelEntry

StepSpec == StepInit /\ [][StepNext]_vars

\* The manager's methods called one at a time, by any caller: add_job,
\* get_next_job with start_job as process_queue pairs them,
\* update_job_progress, complete_job and fail_job on an active job,
\* cancel_job, retry_job and clear_completed.  A call that raises returns
\* with what it had assigned before.  The manager never reads a request, so
\* one request stands for all.
Progresses == {50}

Called(m) ==
    /\ SetManager(m)
    /\ last' = Other
    /\ UNCHANGED <<max_concurrent, max_queue_size, pc, cur, enq>>
    /\ UNCHANGED <<cvars, xvars>>

CallAdd ==
    /\ nextId <= MaxJobs
    /\ nextId' = nextId + 1
    /\ \E req \in {"within"}, p \in Priorities :
          IF queue_full(Manager) THEN Called(Manager)
          ELSE IF add_job_raises(Manager, p)
          THEN Called([Manager EXCEPT !.jobs =
                          [j \in DOMAIN jobs \cup {nextId} |->
                              IF j = nextId THEN BatchJob(req, p)
                              ELSE jobs[j]]])
          ELSE Called(add_job(Manager, nextId, req, p).m)
CallStart ==
    /\ can_process_more(Manager)
    /\ IF get_next_job_raises(Manager) THEN Called(Manager)
       ELSE /\ get_next_job(Manager) # 0
            /\ Called(start_job(Manager, get_next_job(Manager)))
    /\ UNCHANGED nextId
CallProgress ==
    /\ \E id \in JobIds, progress \in Progresses,
          status \in {None, PENDING, PROCESSING, COMPLETED, FAILED,
                      CANCELLED} :
          Called(update_job_progress(Manager, id, progress, status))
    /\ UNCHANGED nextId
CallComplete ==
    /\ \E id \in active_jobs : Called(complete_job(Manager, id, "completed"))
    /\ UNCHANGED nextId
CallFail ==
    /\ \E id \in active_jobs : Called(fail_job(Manager, id, "error"))
    /\ UNCHANGED nextId
CallCancel ==
    /\ \E id \in JobIds : Called(cancel_job(Manager, id).m)
    /\ UNCHANGED nextId
CallRetry ==
    /\ Len(queue) <= MaxJobs
    /\ \E id \in JobIds : Called(retry_job(Manager, id).m)
    /\ UNCHANGED nextId
CallClear == Called(clear_completed(Manager)) /\ UNCHANGED nextId

ManagerInit == QInit /\ CInit /\ XIdle
ManagerNext ==
    CallAdd \/ CallStart \/ CallProgress \/ CallComplete \/ CallFail
        \/ CallCancel \/ CallRetry \/ CallClear

ManagerSpec == ManagerInit /\ [][ManagerNext]_vars

\* the pipeline functions alone, each applied to every input of its bounds
PipeInit == QInit /\ CInit /\ XIdle
PipeNext == Export \/ Elevation \/ Fingerprint

PipeSpec == PipeInit /\ [][PipeNext]_vars

\* POST /api/generate and the background tasks it starts; the client submits
\* a request once the task of its previous one has finished
Submit == /\ Len(active_tasks) < MaxTasks
          /\ in_flight = {}
          /\ \E request \in Requests : SubmitRequest(request)
          /\ UNCHANGED <<qvars, cvars, ws>>
Start == /\ \E t \in DOMAIN task_pc : StartGeneration(t)
         /\ UNCHANGED <<qvars, cvars, ws>>
Acquire == /\ \E t \in DOMAIN task_pc, beh \in [Registrable -> SourceBehaviour] :
                 ElevationDone(t, beh)
           /\ UNCHANGED <<qvars, cvars, ws>>
Extract == /\ \E t \in DOMAIN task_pc, osm \in OsmBehaviour, azure \in SourceBehaviour :
                 VectorDone(t, osm, azure)
           /\ UNCHANGED <<qvars, cvars, ws>>
Finish == /\ \E t \in DOMAIN task_pc,
                raising \in SUBSET {"Unreal5Heightmap", "Unreal5Weightmap"} :
                ExportDone(t, raising)
          /\ UNCHANGED <<qvars, cvars, ws>>
Connect == /\ \E task_id \in TaskIds : ConnectSocket(task_id)
           /\ UNCHANGED <<qvars, cvars, pipe, active_tasks, task_req, task_pc, task_data>>
Poll == /\ PollStatus
        /\ UNCHANGED <<qvars, cvars, pipe, active_tasks, task_req, task_pc, task_data>>

GenInit == QInit /\ CInit /\ XIdle
GenNext == Submit \/ Start \/ Acquire \/ Extract \/ Finish

GenSpec == GenInit /\ [][GenNext]_vars

\* the tasks and one observer of a task
WatchInit == QInit /\ CInit /\ XIdle
WatchNext == Submit \/ Start \/ Acquire \/ Extract \/ Finish \/ Connect \/ Poll

WatchSpec == WatchInit /\ [][WatchNext]_vars

\* ------------------------------------------------------------ properties
Processing == {j \in DOMAIN jobs : jobs[j].status = PROCESSING}
PendingQueued == {j \in Range(queue) : jobs[j].status = PENDING}
Pos(s, x) == index_of(s, x, 1)

\* C1: in every reachable state the number of jobs whose status is
\* processing is at most max_concurrent, whatever max_concurrent is and
\* however many process_queue loops are interleaved.
ConcurrencyCap == Cardinality(Processing) <= max_concurrent

\* the cap is reached with a job still pending, and a loop that was
\* scheduled has run and gone without starting it
ConcurrencyCapWitness ==
    /\ \E d \in Drivers : pc[d] = "idle"
    /\ \A d \in Drivers : pc[d] # "scheduled"
    /\ Cardinality(Processing) = max_concurrent
    /\ PendingQueued # {}
    /\ \E d \in Drivers : /\ pc[d] = "run"
                           /\ cur[d] \in DOMAIN jobs
                           /\ jobs[cur[d]].status = PROCESSING

\* C2: add_job on a non-full queue puts the new job immediately before the
\* first queued job of strictly lower priority, at the tail if there is
\* none; and with A(5), B(1), C(5), D(3) added in that order the jobs are
\* queued, and started, in the order A, C, D, B.
ExampleOrder == <<1, 3, 4, 2>>
ExampleJobs ==
    /\ DOMAIN jobs = 1..4
    /\ jobs[1].priority = 5 /\ jobs[2].priority = 1
    /\ jobs[3].priority = 5 /\ jobs[4].priority = 3

InsertStep ==
    (last'.op = "add" /\ Len(last'.ret) = 1 /\ last'.ret[1] > 0 /\ nextId' # nextId) =>
        LET n == last'.ret[1]
            p == jobs'[n].priority
        IN \E k \in 0..Len(queue) :
              /\ queue' = SubSeq(queue, 1, k) \o <<n>> \o SubSeq(queue, k + 1, Len(queue))
              /\ \A i \in 1..k : jobs[queue[i]].priority >= p
              /\ k < Len(queue) => jobs[queue[k + 1]].priority < p

ExampleStep ==
    ExampleJobs =>
        /\ (\A j \in 1..4 : jobs[j].status = PENDING) => queue = ExampleOrder
        /\ \A j \in 1..4 :
              (jobs[j].status = PENDING /\ jobs'[j].status = PROCESSING) =>
                 \A k \in 1..4 : jobs[k].status = PENDING =>
                                    Pos(ExampleOrder, j) <= Pos(ExampleOrder, k)

PriorityInsert == [][InsertStep /\ ExampleStep]_qvars

\* B, the last of the example's jobs, is running after A, C and D are done
PriorityInsertWitness ==
    /\ ExampleJobs
    /\ jobs[2].status = PROCESSING
    /\ \A j \in {1, 3, 4} : jobs[j].status = COMPLETED

\* C3: the queue is ordered by non-increasing priority; get_next_job never
\* returns a pending job while a pending job of strictly higher priority is
\* queued, and among pending jobs of equal priority it returns the one
\* enqueued earliest.
QueueOrder ==
    /\ \A i, k \in 1..Len(queue) :
          i < k => jobs[queue[i]].priority >= jobs[queue[k]].priority
    /\ LET n == get_next_job(Manager)
       IN n # 0 =>
            \A k \in PendingQueued :
               /\ jobs[k].priority <= jobs[n].priority
               /\ jobs[k].priority = jobs[n].priority =>
                     Pos(enq, n) <= Pos(enq, k)

\* C4: a completed or cancelled job never changes status again, and a
\* failed job changes status only to pending, through retry_job.
TerminalStep ==
    \A j \in DOMAIN jobs \cap DOMAIN jobs' :
       /\ jobs[j].status \in {COMPLETED, CANCELLED} =>
             jobs'[j].status = jobs[j].status
       /\ (jobs[j].status = FAILED /\ jobs'[j].status # FAILED) =>
             /\ jobs'[j].status = PENDING
             /\ \E d \in Drivers : retry_batch_job(j, d)

TerminalStatus == [][TerminalStep]_qvars

\* C5: retry_job succeeds exactly when the job exists and is failed; then
\* the job is pending with progress 0 and no error, keeps its request and
\* priority and is the last of the queue, and nothing else changes;
\* otherwise it returns False and changes nothing.
RetryStep ==
    \A id \in JobIds :
        (last'.op = "retry" /\ \E d \in Drivers : retry_batch_job(id, d)) =>
           /\ last'.ret = (id \in DOMAIN jobs /\ jobs[id].status = FAILED)
           /\ last'.ret =>
                 /\ DOMAIN jobs' = DOMAIN jobs
                 /\ jobs'[id] = [jobs[id] EXCEPT !.status = PENDING,
                                                 !.progress = 0,
                                                 !.error = None]
                 /\ jobs'[id].progress = 0 /\ jobs'[id].error = None
                 /\ \A j \in DOMAIN jobs \ {id} : jobs'[j] = jobs[j]
                 /\ queue' = Append(queue, id)
                 /\ queue'[Len(queue')] = id
                 /\ active_jobs' = active_jobs
           /\ ~last'.ret => UNCHANGED <<jobs, queue, active_jobs>>

RetrySemantics == [][RetryStep]_qvars

\* a retried job stands in the queue behind another queued job
RetryWitness ==
    /\ last.op = "retry" /\ last.ret
    /\ Len(queue) >= 2
    /\ enq[Len(enq)] = queue[Len(queue)]
    /\ jobs[queue[Len(queue)]].status = PENDING

\* C6: cancel_job returns False and changes nothing for an unknown job and
\* for a job that is completed, failed or cancelled; it succeeds only for a
\* pending or processing job.
CancelStep ==
    \A id \in JobIds :
        (last'.op = "cancel" /\ cancel_batch_job(id)) =>
        LET live == id \in DOMAIN jobs /\ jobs[id].status \in {PENDING, PROCESSING}
        IN /\ last'.ret => live
           /\ ~live => /\ ~last'.ret
                       /\ UNCHANGED <<jobs, queue, active_jobs>>

CancelOnlyLive == [][CancelStep]_qvars

\* C7: add_job on a queue that holds max_queue_size ids is rejected and adds
\* nothing to jobs or queue; on a shorter queue it succeeds and the new job
\* is pending with progress 0.
AddStep ==
    last'.op = "add" =>
        LET out == last'.ret
            new == {out[i] : i \in {k \in 1..Len(out) : out[k] > 0}}
            before(i) == Cardinality({k \in 1..(i - 1) : out[k] > 0})
        IN /\ \A i \in 1..Len(out) :
                 out[i] # SKIPPED =>
                    /\ (out[i] = FULL) = (Len(queue) + before(i) >= max_queue_size)
                    /\ out[i] # FULL => /\ out[i] \notin DOMAIN jobs
                                        /\ jobs'[out[i]].status = PENDING
                                        /\ jobs'[out[i]].progress = 0
           /\ DOMAIN jobs' = DOMAIN jobs \cup new
           /\ \A j \in DOMAIN jobs : jobs'[j] = jobs[j]
           /\ Range(queue') = Range(queue) \cup new
           /\ Len(queue') = Len(queue) + Cardinality(new)

QueueFullRejects == [][AddStep]_qvars

\* an add_job was rejected by a full queue
QueueFullWitness ==
    /\ last.op = "add"
    /\ \E i \in 1..Len(last.ret) : last.ret[i] = FULL
    /\ Len(queue) = max_queue_size

\* C8: a batch job is completed only if its pipeline run produced a usable
\* result; a job whose pipeline run failed is failed and carries an error.
CompletedHasResult ==
    \A j \in DOMAIN jobs :
       /\ jobs[j].status = COMPLETED => jobs[j].result = "completed"
       /\ jobs[j].result = "failed" =>
             jobs[j].status = FAILED /\ jobs[j].error # None

\* C9: after every store_result, whatever puts, gets and invalidations came
\* before, the sizes of the live entries sum to at most max_cache_size.
CacheBound == sum_sizes(entries) <= max_cache_size

\* C10: a put that evicts removes exactly the least recently accessed
\* entries needed to bring the total within the bound: no entry is removed
\* while a less recently accessed one is kept, and none is removed once the
\* bound can be met.
Removed == {i \in 1..Len(entries) : ~has_key(entries', entries[i].key)}
Kept == {i \in 1..Len(entries) : /\ has_key(entries', entries[i].key)
                                  /\ entries[i].key # clast'.key}

RECURSIVE sum_of(_, _)
sum_of(es, I) ==
    IF I = {} THEN 0
    ELSE LET i == CHOOSE x \in I : TRUE
         IN es[i].size + sum_of(es, I \ {i})

EvictLRU ==
    \A i \in Removed, k \in Kept :
        entries[i].last_accessed <= entries[k].last_accessed

EvictNeeded ==
    \E i \in Removed :
        /\ \A k \in Removed : entries[k].last_accessed <= entries[i].last_accessed
        /\ sum_of(entries, Kept) + entries[i].size + clast'.size > max_cache_size

EvictStep == (clast'.op = "store" /\ Removed # {}) => (EvictLRU /\ EvictNeeded)

EvictsExactlyLRU == [][EvictStep]_cvars

\* C11: get_cached_result returns the path exactly when the index holds the
\* key, the path is on disk and the entry's age is at most max_age; a hit
\* stamps last_accessed with now and adds one to access_count; a miss on a
\* lost path or an expired entry drops the entry; a miss on an unknown key
\* changes nothing.
GetStep ==
    clast'.op = "get" =>
        LET key == clast'.key
            known == has_key(entries, key)
            e == entry_of(entries, key)
            fresh == known /\ key \in disk /\ now - e.created <= max_age
        IN /\ clast'.ret = fresh
           /\ fresh => /\ has_key(entries', key)
                       /\ entry_of(entries', key) =
                             [e EXCEPT !.last_accessed = now,
                                       !.access_count = e.access_count + 1]
                       /\ disk' = disk
           /\ (known /\ ~fresh) => ~has_key(entries', key)
           /\ ~known => UNCHANGED <<entries, total_size, disk>>
           /\ \A k \in Keys \ {key} :
                 /\ has_key(entries', k) = has_key(entries, k)
                 /\ has_key(entries, k) =>
                       entry_of(entries', k) = entry_of(entries, k)

LookupContract == [][GetStep]_cvars

\* a hit on an entry whose age is exactly max_age
LookupWitness ==
    /\ clast.op = "get" /\ clast.ret
    /\ entry_of(entries, clast.key).access_count = 1
    /\ now - entry_of(entries, clast.key).created = max_age

\* C13: generate_cache_key gives one key to two bounding boxes whose
\* corresponding coordinates differ by less than 1e-6 degree (10 units), and
\* one key to two configs that differ only in the order of export_formats.
abs(x) == IF x < 0 THEN 0 - x ELSE x

occurrences(formats, f) == Cardinality({i \in 1..Len(formats) : formats[i] = f})

same_up_to_order(c1, c2) ==
    /\ c1.resolution = c2.resolution
    /\ \A f \in ExportFormat :
          occurrences(c1.export_formats, f) = occurrences(c2.export_formats, f)

closer_than_1e6(b1, b2) ==
    /\ abs(b1.north - b2.north) < 10
    /\ abs(b1.south - b2.south) < 10
    /\ abs(b1.east - b2.east) < 10
    /\ abs(b1.west - b2.west) < 10

KeyInsensitive ==
    pipe.op = "key" =>
        ((closer_than_1e6(pipe.b1, pipe.b2) /\ same_up_to_order(pipe.c1, pipe.c2))
            => pipe.k1 = pipe.k2)

\* C14: _get_elevation_data never raises; it returns the data of the first
\* source of the priority list that is registered, available and returns
\* data; get_elevation_data is awaited on no source that is unavailable; when
\* no source gives data the result is synthetic terrain.
first_with_data(priority, beh) ==
    LET I == {i \in 1..Len(priority) : behaviour(beh, priority[i]) = "data"}
    IN IF I = {} THEN 0 ELSE CHOOSE i \in I : \A k \in I : i <= k

ElevationNeverRaises ==
    pipe.op = "elevation" =>
        LET priority == priority_of(pipe.source_priority)
            k == first_with_data(priority, pipe.beh)
        IN /\ pipe.out.ret.kind # "raise"
           /\ \A i \in 1..Len(pipe.out.called) :
                 behaviour(pipe.beh, pipe.out.called[i])
                    \notin {"absent", "unavailable", "avail_raises"}
           /\ k # 0 => pipe.out.ret = [kind |-> "data", source |-> priority[k]]
           /\ k = 0 => pipe.out.ret.kind = "synthetic"

\* C16: in _export_terrain a format whose exporter raises gets an error
\* entry, every other format that has an exporter gets its files, and the
\* function returns the manifest: one format's failure stops no other.
exporter_fails(f) ==
    \/ f = "unreal5" /\ "Unreal5Heightmap" \in pipe.raising
    \/ f = "unreal5" /\ pipe.weightmaps /\ "Unreal5Weightmap" \in pipe.raising
    \/ f = "unity" /\ "Unity" \in pipe.raising
    \/ f = "gltf" /\ "GLTF" \in pipe.raising
    \/ f = "geotiff" /\ "GeoTIFF" \in pipe.raising

ExportIsolated ==
    pipe.op = "export" =>
        \A f \in Range(expand_all(pipe.formats)) \ {"obj", "all"} :
            \E i \in 1..Len(pipe.out) :
                /\ pipe.out[i].format = f
                /\ pipe.out[i].entry = IF exporter_fails(f) THEN "error" ELSE "files"
                /\ \A k \in 1..Len(pipe.out) : pipe.out[k].format = f => k = i

\* formats [unreal5, unity, gltf] with the unity exporter raising
ExportIsolatedWitness ==
    /\ pipe.op = "export"
    /\ pipe.formats = <<"unreal5", "unity", "gltf">>
    /\ pipe.raising = {"Unity"}
    /\ pipe.out = <<[format |-> "unreal5", entry |-> "files"],
                    [format |-> "unity", entry |-> "error"],
                    [format |-> "gltf", entry |-> "files"]>>

\* C17: the manifest of _export_terrain has exactly one entry for every
\* requested format, whatever ExportFormat values the request carries; a
\* request holding "all" yields entries for exactly unreal5, unity, gltf and
\* geotiff.
ManifestCoversRequest ==
    pipe.op = "export" =>
        LET requested == IF "all" \in Range(pipe.formats)
                         THEN {"unreal5", "unity", "gltf", "geotiff"}
                         ELSE Range(pipe.formats)
        IN /\ {pipe.out[i].format : i \in 1..Len(pipe.out)} = requested
           /\ Len(pipe.out) = Cardinality(requested)

\* C18: a request whose bounding-box area exceeds max_area_km2 is rejected at
\* submission: it never becomes a batch job and never stands in the queue.
OverAreaNeverQueued ==
    /\ \A j \in DOMAIN jobs : jobs[j].request # "over"
    /\ \A i \in 1..Len(queue) : jobs[queue[i]].request # "over"

\* C12: a run of a (bbox, config) that an earlier run has completed invokes
\* no elevation source: the result comes from the cache.
SecondRunStep ==
    pipe'.op = "elevation" =>
        \A u \in DOMAIN active_tasks :
            (/\ u # pipe'.task
             /\ active_tasks[u].status = "completed"
             /\ task_req[u] = task_req[pipe'.task])
            => (pipe'.out.asked = <<>> /\ pipe'.out.called = <<>>)

SecondRunFromCache == [][SecondRunStep]_xvars

\* C15: _get_vector_data never raises; it returns the data of OSM if OSM
\* gives any, else of Azure Maps if that is registered and available and
\* gives any, else None without calling an unavailable Azure Maps; whatever it
\* returns the task stays in processing with no error and goes on to export.
VectorStep ==
    pipe'.op = "vector" =>
        LET t == pipe'.task
            out == pipe'.out
        IN /\ out.ret = IF pipe'.osm = "data"
                        THEN [kind |-> "data", source |-> "osm"]
                        ELSE IF pipe'.azure = "data"
                        THEN [kind |-> "data", source |-> "azure_maps"]
                        ELSE [kind |-> "none", source |-> None]
           /\ pipe'.azure \in {"absent", "unavailable", "avail_raises"} =>
                 \A i \in 1..Len(out.called) : out.called[i] # "azure_maps"
           /\ active_tasks'[t].status = "processing"
           /\ active_tasks'[t].error = None
           /\ task_pc'[t] = "export"
           /\ task_pc[t] = "vector"

VectorNeverFails == [][VectorStep]_xvars

\* OSM raised, Azure Maps raised, and the task is at its export
VectorNeverFailsWitness ==
    /\ pipe.op = "vector"
    /\ pipe.osm = "raises" /\ pipe.azure = "raises"
    /\ pipe.out.ret.kind = "none"
    /\ task_pc[pipe.task] = "export"
    /\ active_tasks[pipe.task].status = "processing"

\* C19: every task comes from a request whose bounding box has north above
\* south and east beyond west.
WellFormedOnly ==
    \A t \in DOMAIN task_req :
        /\ task_req[t].bbox.north > task_req[t].bbox.south
        /\ task_req[t].bbox.east > task_req[t].bbox.west

\* C20: the observer pushes no two equal status updates in a row; when it
\* has closed the channel of a task it found, the last message it pushed is
\* the update that carries the task's terminal status; for a task it did not
\* find it pushed one error message and closed.
ObserverReportsTerminal ==
    /\ \A i \in 2..(Len(ws.sent) - 1) :
          (ws.sent[i].type = "status_update"
              /\ ws.sent[i + 1].type = "status_update")
             => ws.sent[i] # ws.sent[i + 1]
    /\ ws.pc = "closed" =>
          LET m == ws.sent[Len(ws.sent)]
          IN IF ws.found
             THEN /\ m.type = "status_update"
                  /\ m.status \in {"completed", "failed"}
             ELSE ws.sent = <<[type |-> "connected"], [type |-> "error"]>>

\* get_job: the job registered under id, None for an unknown id
get_job(m, id) == IF id \in DOMAIN m.jobs THEN m.jobs[id] ELSE None

\* C21: a job that has failed stays retrievable through get_job, with status
\* failed and its error message, across every later step on the queue, until
\* the step that retries it.
FailedStays ==
    \A id \in JobIds :
        (id \in DOMAIN jobs /\ get_job(Manager, id).status = FAILED) =>
            LET m2 == [jobs |-> jobs', queue |-> queue',
                       active_jobs |-> active_jobs']
            IN /\ id \in DOMAIN m2.jobs
               /\ \/ /\ get_job(m2, id).status = FAILED
                     /\ get_job(m2, id).error = get_job(Manager, id).error
                  \/ /\ last'.op = "retry" /\ last'.ret
                     /\ get_job(m2, id).status = PENDING

FailedJobRetrievable == [][FailedStays]_qvars

\* the loops that are inside generate_terrain for job j
Holders(j) == {d \in Drivers : pc[d] = "run" /\ cur[d] = j}

removed_only(m, m2, id) ==
    /\ id \notin m2.active_jobs
    /\ id \notin Range(m2.queue)
    /\ m2.active_jobs \ {id} = m.active_jobs \ {id}
    /\ SelectSeq(m2.queue, LAMBDA j : j # id)
          = SelectSeq(m.queue, LAMBDA j : j # id)

\* C23: in every reachable state, applying complete_job, fail_job or
\* cancel_job to any job leaves that job's id in neither the active set nor
\* the queue and changes no other job's membership in either.
TerminalRemoves ==
    \A id \in JobIds :
        /\ removed_only(Manager, complete_job(Manager, id, "completed"), id)
        /\ removed_only(Manager, fail_job(Manager, id, "error"), id)
        /\ removed_only(Manager, cancel_job(Manager, id).m, id)

\* a job has just been cancelled and stands in neither collection, while
\* another job is still queued and active
TerminalRemovesWitness ==
    /\ last.op = "cancel" /\ last.ret
    /\ \E j \in DOMAIN jobs :
          /\ jobs[j].status = CANCELLED
          /\ j \notin Range(queue) /\ j \notin active_jobs
    /\ \E k \in active_jobs : k \in Range(queue)

\* C24: a store_result that returns True has copied the result and written
\* the key's index entry with the result's size; one whose copy fails
\* returns False and leaves the index with no entry for the key other than
\* the entry it held before the call.
StoreStep ==
    clast'.op = "store" =>
        LET key == clast'.key
        IN /\ clast'.ret =>
                 /\ key \in disk'
                 /\ has_key(entries', key)
                 /\ entry_of(entries', key).size = clast'.size
           /\ ~clast'.ret =>
                 (has_key(entries', key) =>
                     /\ has_key(entries, key)
                     /\ entry_of(entries', key) = entry_of(entries, key))

IndexAfterCopy == [][StoreStep]_cvars

\* a copy has failed half way: files of the key lie in the cache root, the
\* index has no entry for it, and another key is cached
IndexAfterCopyWitness ==
    /\ clast.op = "store" /\ ~clast.ret
    /\ clast.key \in disk
    /\ ~has_key(entries, clast.key)
    /\ entries # <<>>

\* C25: when invalidate_cache has deleted the files of an entry, the index
\* no longer holds that entry: the entry leaves the index first.
IndexBeforeFiles ==
    clast.op = "rmtree" => ~has_key(entries, clast.key)

\* C26: the queue never holds more than max_queue_size job ids.
QueueBounded == Len(queue) <= max_queue_size

\* C27: after every cache operation the recorded total_size is the sum of
\* the sizes of the entries in the index.
TotalSizeExact == total_size = sum_sizes(entries)

\* C28: every id in the queue and in the active set is the id of a job in
\* the registry, and no id stands twice in the queue.
NoDanglingIds ==
    /\ \A i \in 1..Len(queue) : queue[i] \in DOMAIN jobs
    /\ \A id \in active_jobs : id \in DOMAIN jobs
    /\ \A i, k \in 1..Len(queue) : i # k => queue[i] # queue[k]

\* the loops that are inside generate_terrain
InFlight == {d \in Drivers : pc[d] = "run"}

\* C29: the number of pipeline executions in flight is at most
\* max_concurrent, also after processing jobs have been cancelled.
InFlightCap == Cardinality(InFlight) <= max_concurrent

Terminal(j) ==
    j \in DOMAIN jobs => jobs[j].status \in {COMPLETED, FAILED, CANCELLED}

\* C30: with every pipeline run ending and every scheduled loop run, a job
\* that is pending, whether add_job accepted it or retry_job put it back,
\* eventually has a terminal status (or has been cleared after it had one).
EventuallyTerminal ==
    \A j \in JobIds :
        (j \in DOMAIN jobs /\ jobs[j].status = PENDING) ~> Terminal(j)

\* every job the bounds allow has been accepted and run and has ended, one
\* of them completed by its pipeline, and every loop has gone
EventuallyTerminalWitness ==
    /\ nextId = MaxJobs + 1
    /\ \A j \in DOMAIN jobs : jobs[j].status \in {COMPLETED, FAILED}
    /\ \E j \in DOMAIN jobs : jobs[j].status = COMPLETED /\ jobs[j].error = None
                               /\ jobs[j].request = "within"
    /\ \A d \in Drivers : pc[d] = "idle"
    /\ DOMAIN jobs = JobIds

\* the steps RunFair and ResumeFair single out are the steps of the loops
FairStepsAreLoopSteps ==
    [][\A d \in Drivers :
          /\ RunFair(d) <=> RunTask(d)
          /\ ResumeFair(d) <=>
                \E o \in {"completed", "failed", "raise"} : ResumeTask(d, o)]_vars

====
